---- MODULE Spec2Model ----
(***************************************************************************)
(* A model of dgs_wav_p.py: wavelet-based digital grain size analysis.     *)
(*                                                                         *)
(* The batch program (main program, processimage, the joblib dispatch of   *)
(* parallel_me, writeout) is the state machine Spec.  The numerical helper *)
(* functions (sgolay2d's parameter checks, Cwt._setscales, pad2nxtpow2,    *)
(* the scale truncation and the moments) are operators; each has a         *)
(* specification of its own that draws the arguments in Init and applies   *)
(* the function in one action.                                             *)
(*                                                                         *)
(* The program is Python 2: "/" between two ints is floor division (\div). *)
(* Floating point expressions are modelled by exact integer comparisons    *)
(* that decide the same cases (see _log2, Base2, ScaleBelow).              *)
(***************************************************************************)
EXTENDS Integers, Sequences, FiniteSets

VARIABLES
    sgCall,     \* one call of sgolay2d(z, window_size, order)
    cwtCall,    \* one construction of Cwt(data, largestscale, notes, scaling)
    padCall,    \* one call of pad2nxtpow2(A, ny)
    statCall,   \* the moments of processimage, lines 447-451
    aggCall,    \* the scale truncation of processimage, lines 436-445
    \* the batch run
    files,      \* the image files found by glob, in the order they are looped over
    density,    \* -d: every density-th column is analysed
    numproc,    \* -n: n_jobs of the worker pool
    resolution, \* -r: mm/pixel
    item,       \* index in files of the image being processed
    pc,         \* where the main program is
    nx, ny,     \* shape of the cropped region
    useregion,  \* "filtered" (rescaled residual) or "raw" (region itself)
    flattenFailed, \* the try block of lines 385-393 raised
    jobs,       \* the column indices submitted to Parallel, in order
    tasks,      \* status of each submitted task
    results,    \* the vector each completed task returned
    finished,   \* task slots in the order the tasks completed
    d,          \* the list Parallel returned
    ret,        \* what processimage returned
    outputs,    \* the _psd.txt / _summary.txt pairs written, in order
    count       \* images analysed

callVars == <<sgCall, cwtCall, padCall, statCall, aggCall>>
cfgVars == <<files, density, numproc, resolution>>
imgVars == <<nx, ny, useregion, flattenFailed>>
poolVars == <<jobs, tasks, results, finished>>
pipeVars == <<cfgVars, item, pc, imgVars, poolVars, d, ret, outputs, count>>

vars == <<callVars, pipeVars>>

\* A call that a specification does not make.
Idle == [pc |-> "idle"]

\* The batch program not running (the specifications of single functions).
PipeIdle ==
    /\ files = <<>> /\ density = 0 /\ numproc = 0 /\ resolution = 0
    /\ item = 0 /\ pc = "idle"
    /\ nx = 0 /\ ny = 0 /\ useregion = "none" /\ flattenFailed = FALSE
    /\ jobs = <<>> /\ tasks = <<>> /\ results = <<>> /\ finished = <<>>
    /\ d = <<>> /\ ret = <<>> /\ outputs = <<>> /\ count = 0

----------------------------------------------------------------------------
(* Arithmetic helpers *)

RECURSIVE Pow2(_)
Pow2(k) == IF k <= 0 THEN 1 ELSE 2 * Pow2(k - 1)

\* the exact integer part of log2(x), x >= 1
RECURSIVE FloorLog2(_)
FloorLog2(x) == IF x <= 1 THEN 0 ELSE 1 + FloorLog2(x \div 2)

\* the smallest power of two strictly greater than n
RECURSIVE NextPow2Above(_)
NextPow2Above(n) == IF n <= 0 THEN 1 ELSE 2 * NextPow2Above(n \div 2)

----------------------------------------------------------------------------
(* sgolay2d: the parameter checks, lines 103-110 *)

MaxWindow == 6
MaxOrder == 4

\* number of terms in the polynomial expression (line 104); (order+1)(order+2)
\* is even, so the float division by 2.0 is exact
n_terms(order) == ((order + 1) * (order + 2)) \div 2

Sgolay2dCheckLe(window_size, order) ==
    IF window_size % 2 = 0 THEN "window_size must be odd"
    ELSE IF window_size * window_size <= n_terms(order)
         THEN "order is too high for the window size"
         ELSE "none"

\* lines 106-110: the ValueError raised, or "none"
Sgolay2dCheck(window_size, order) ==
    IF window_size % 2 = 0 THEN "window_size must be odd"
    ELSE IF window_size * window_size < n_terms(order)
         THEN "order is too high for the window size"
         ELSE "none"

\* sgolay2d as a whole: a ValueError from the checks, else the filtered
\* matrix, unless the numerical part (lines 112-185: pinv, fftconvolve)
\* fails, which is the environment's choice numFail.
sgolay2d(window_size, order, numFail) ==
    LET err == Sgolay2dCheck(window_size, order)
    IN  IF err # "none" THEN [raised |-> err, returned |-> FALSE]
        ELSE IF numFail THEN [raised |-> "numerical", returned |-> FALSE]
        ELSE [raised |-> "none", returned |-> TRUE]

SgInit ==
    /\ sgCall \in [pc : {"call"}, window_size : (-MaxWindow)..MaxWindow,
                   order : 0..MaxOrder, numFail : BOOLEAN,
                   raised : {"none"}, returned : {FALSE}]
    /\ cwtCall = Idle /\ padCall = Idle /\ statCall = Idle /\ aggCall = Idle
    /\ PipeIdle

SgRun ==
    /\ sgCall.pc = "call"
    /\ LET r == sgolay2d(sgCall.window_size, sgCall.order, sgCall.numFail)
       IN  sgCall' = [sgCall EXCEPT !.pc = "done", !.raised = r.raised,
                                    !.returned = r.returned]
    /\ UNCHANGED <<cwtCall, padCall, statCall, aggCall, pipeVars>>

SpecSgolay == SgInit /\ [][SgRun]_vars

IsParameterError(e) ==
    e \in {"window_size must be odd", "order is too high for the window size"}

\* C4: sgolay2d raises a parameter error, and returns no matrix, exactly when
\* window_size is even or window_size^2 is below (order+1)(order+2)/2.
C4_ParameterErrorExact ==
    sgCall.pc = "done" =>
        LET W == sgCall.window_size
            p == sgCall.order
            even == \E k \in (-MaxWindow - 1)..(MaxWindow + 1) : W = 2 * k
            few == 2 * W * W < (p + 1) * (p + 2)
        IN  /\ IsParameterError(sgCall.raised) <=> (even \/ few)
            /\ IsParameterError(sgCall.raised) => ~sgCall.returned

\* an odd window that is too small for the order has been rejected, and an
\* odd window with exactly n_terms samples has been accepted
C4_Witness ==
    /\ sgCall.pc = "done"
    /\ sgCall.window_size = 1 /\ sgCall.order = 0
    /\ sgCall.raised = "none" /\ sgCall.returned

----------------------------------------------------------------------------
(* Cwt: _log2, _setscales and the coefficient matrix of __init__ *)

MaxSignal == 40
MaxDivisor == 3
MaxNotes == 3

\* int(np.log(float(x))/np.log(2.0) + 0.0001), lines 247-249, for x >= 1.
\* With k the exact integer part of log2(x), the sum reaches k+1 exactly when
\* x * 2^0.0001 >= 2^(k+1), that is when 2^(k+1) - x <= x * (2^0.0001 - 1)
\* = x / 14426.45...; the quotient is irrational, so the integer comparison
\* below decides the same cases as the floats do.
_log2(x) ==
    LET k == FloorLog2(x)
    IN  IF Pow2(k + 1) - x <= (x * 100) \div 1442645 THEN k + 1 ELSE k

\* Cwt._setscales, lines 288-307: the scale count, or the exception raised.
\* ndata/largestscale/2 is floor division of ints; at 0 np.log gives -inf
\* and int() raises OverflowError.
_setscales(ndata, largestscale, notes, scaling) ==
    LET x == (ndata \div largestscale) \div 2
    IN  IF scaling = "log"
        THEN IF x = 0 THEN [raised |-> "OverflowError", nscale |-> 0]
             ELSE [raised |-> "none",
                   nscale |-> (IF notes <= 0 THEN 1 ELSE notes) * _log2(x)]
        ELSE IF scaling = "linear"
        THEN [raised |-> "none", nscale |-> IF x > 2 THEN x - 2 ELSE 0]
        ELSE [raised |-> "ValueError", nscale |-> 0]

\* the signal lengths tried: the small ones, and lengths whose octave count
\* lies just below a power of two
SignalLengths == (1..MaxSignal) \cup {16382, 16384, 32766, 32768, 98298}

CwtInit ==
    /\ cwtCall \in [pc : {"call"}, ndata : SignalLengths,
                    largestscale : 1..MaxDivisor, notes : 0..MaxNotes,
                    scaling : {"log", "linear", "cubic"},
                    raised : {"none"}, nscale : {0}, rows : {0}, cols : {0}]
    /\ sgCall = Idle /\ padCall = Idle /\ statCall = Idle /\ aggCall = Idle
    /\ PipeIdle

\* Cwt.__init__, lines 265-269: self.cwt = np.zeros((self.nscale, ndata))
CwtConstruct ==
    /\ cwtCall.pc = "call"
    /\ LET r == _setscales(cwtCall.ndata, cwtCall.largestscale,
                           cwtCall.notes, cwtCall.scaling)
       IN  cwtCall' = IF r.raised # "none"
                      THEN [cwtCall EXCEPT !.pc = "raised", !.raised = r.raised]
                      ELSE [cwtCall EXCEPT !.pc = "done", !.nscale = r.nscale,
                                           !.rows = r.nscale,
                                           !.cols = cwtCall.ndata]
    /\ UNCHANGED <<sgCall, padCall, statCall, aggCall, pipeVars>>

SpecCwt == CwtInit /\ [][CwtConstruct]_vars

\* C6: in "log" mode, for N >= 2L and notes >= 1, nscale is
\* notes * floor(log2(N/L/2)) and the coefficient matrix is nscale x N.
C6_LogScaleCount ==
    (/\ cwtCall.pc \in {"done", "raised"}
     /\ cwtCall.scaling = "log"
     /\ cwtCall.notes >= 1
     /\ cwtCall.ndata >= 2 * cwtCall.largestscale)
    => /\ cwtCall.pc = "done"
       /\ cwtCall.nscale = cwtCall.notes
              * FloorLog2((cwtCall.ndata \div cwtCall.largestscale) \div 2)
       /\ cwtCall.rows = cwtCall.nscale
       /\ cwtCall.cols = cwtCall.ndata

----------------------------------------------------------------------------
(* pad2nxtpow2, lines 207-214 *)

MaxNy == 40

\* np.fix(np.log(ny)/np.log(2) + 0.4999), line 211, for ny >= 1: the largest
\* k with 2^k <= ny * 2^0.4999, and 2^0.4999 = 1.4141155...; no ny/2^k of the
\* lengths modelled lies between that and 1.414116.
RECURSIVE Base2From(_, _)
Base2From(ncol, k) ==
    IF Pow2(k + 1) * 1000000 <= ncol * 1414116 THEN Base2From(ncol, k + 1) ELSE k

base2(ncol) == Base2From(ncol, 0)

\* lines 212-214: Y has ny + (2^(base2+1) - ny) entries, A in the first ny
pad2nxtpow2(A, ncol) ==
    [i \in 1..(ncol + (Pow2(base2(ncol) + 1) - ncol)) |->
        IF i <= ncol THEN A[i] ELSE 0]

PadInit ==
    /\ \E ncol \in 1..MaxNy, gain \in 1..3 :
         padCall = [pc |-> "call", ny |-> ncol,
                    A |-> [i \in 1..ncol |-> gain * i], Y |-> <<>>]
    /\ sgCall = Idle /\ cwtCall = Idle /\ statCall = Idle /\ aggCall = Idle
    /\ PipeIdle

PadRun ==
    /\ padCall.pc = "call"
    /\ padCall' = [padCall EXCEPT !.pc = "done",
                                  !.Y = pad2nxtpow2(padCall.A, padCall.ny)]
    /\ UNCHANGED <<sgCall, cwtCall, statCall, aggCall, pipeVars>>

SpecPad == PadInit /\ [][PadRun]_vars

\* C7: the padded array's length is the smallest power of two strictly
\* greater than ny, the ny samples come first and zeros follow.
C7_PadToNextPow2 ==
    padCall.pc = "done" =>
        /\ Len(padCall.Y) = NextPow2Above(padCall.ny)
        /\ \A i \in 1..padCall.ny : padCall.Y[i] = padCall.A[i]
        /\ \A i \in (padCall.ny + 1)..Len(padCall.Y) : padCall.Y[i] = 0

----------------------------------------------------------------------------
(* processimage, lines 447-451: mean size and sorting (standard deviation).
   Densities are counted in quarters (svarcwt = q/4) and sizes in whole
   units, so mnsz is held in quarters and srt in thousandths. *)

MaxLen == 2
MaxSize == 3

\* the largest r with r*r <= x, found by bisection between lo and hi
RECURSIVE ISqrtIn(_, _, _)
ISqrtIn(x, lo, hi) ==
    IF lo >= hi THEN lo
    ELSE LET mid == (lo + hi + 1) \div 2
         IN  IF mid * mid <= x THEN ISqrtIn(x, mid, hi)
             ELSE ISqrtIn(x, lo, mid - 1)

ISqrt(x) == ISqrtIn(x, 0, 46340)

RECURSIVE SumTo(_, _)
SumTo(f, n) == IF n = 0 THEN 0 ELSE f[n] + SumTo(f, n - 1)

\* np.sum over a whole sequence
npsum(f) == SumTo(f, Len(f))

mnszUnweighted(scales, svarcwt4) == 4 * npsum(scales)

\* line 447: mnsz = np.sum(svarcwt*scales), in quarters
mnsz4(scales, svarcwt4) ==
    npsum([i \in 1..Len(scales) |-> svarcwt4[i] * scales[i]])

\* line 450: srt = np.sqrt(np.sum(svarcwt*((scales-mnsz)**2))), in
\* thousandths: (scales-mnsz) is (4*scales - mnsz4)/4, so the sum is
\* V/64 with V as below, and 1000*sqrt(V/64) = sqrt(15625*V)
srt1000(scales, svarcwt4) ==
    LET m == mnsz4(scales, svarcwt4)
        V == npsum([i \in 1..Len(scales) |->
                       svarcwt4[i] * (4 * scales[i] - m) * (4 * scales[i] - m)])
    IN  ISqrt(15625 * V)

StatInit ==
    /\ \E n \in 1..MaxLen :
         \E sc \in [1..n -> 1..MaxSize], dn \in [1..n -> 0..4], plot \in 0..1 :
            statCall = [pc |-> "call", scales |-> sc, svarcwt4 |-> dn,
                        doplot |-> plot, mnsz4 |-> 0, srt1000 |-> 0]
    /\ sgCall = Idle /\ cwtCall = Idle /\ padCall = Idle /\ aggCall = Idle
    /\ PipeIdle

\* lines 447-451 (skewness and kurtosis, lines 453-457, are computed from the
\* same two arrays and stored nowhere else)
StatRun ==
    /\ statCall.pc = "call"
    /\ statCall' = [statCall EXCEPT
                      !.pc = "done",
                      !.mnsz4 = mnsz4(statCall.scales, statCall.svarcwt4),
                      !.srt1000 = srt1000(statCall.scales, statCall.svarcwt4)]
    /\ UNCHANGED <<sgCall, cwtCall, padCall, aggCall, pipeVars>>

SpecStats == StatInit /\ [][StatRun]_vars

\* sum over an index set, for stating the moments independently of npsum
RECURSIVE SetSum(_, _)
SetSum(f, S) ==
    IF S = {} THEN 0
    ELSE LET i == CHOOSE j \in S : TRUE IN f[i] + SetSum(f, S \ {i})

\* C9: mean = sum(density*size) and stdev = sqrt(sum(density*(size-mean)^2))
\* whatever the other arguments are; density [0.5, 0.5] with sizes [1, 3]
\* gives mean 2 and stdev 1.
C9_MomentsOfTable ==
    statCall.pc = "done" =>
        LET sc == statCall.scales
            dn == statCall.svarcwt4
            I == DOMAIN sc
            S0 == SetSum(dn, I)
            S1 == SetSum([i \in I |-> dn[i] * sc[i]], I)
            S2 == SetSum([i \in I |-> dn[i] * sc[i] * sc[i]], I)
            \* 64 * sum(d*(s-mean)^2), expanded: 16*S2 - 8*S1^2 + S1^2*S0
            V == 16 * S2 - 8 * S1 * S1 + S1 * S1 * S0
            r == statCall.srt1000
        IN  /\ statCall.mnsz4 = S1
            /\ r * r <= 15625 * V /\ 15625 * V < (r + 1) * (r + 1)
            /\ (sc = <<1, 3>> /\ dn = <<2, 2>>)
                  => (statCall.mnsz4 = 4 * 2 /\ statCall.srt1000 = 1000 * 1)

C9_Witness ==
    /\ statCall.pc = "done"
    /\ statCall.scales = <<1, 3>> /\ statCall.svarcwt4 = <<2, 2>>
    /\ statCall.mnsz4 = 8 /\ statCall.srt1000 = 1000

----------------------------------------------------------------------------
(* processimage, lines 418-445: the scale set of the padded column, its
   truncation below ny/3 and the conversion to sizes *)

MaxRes == 2

\* line 400 and line 401
maxscale == 3
notes == 8

\* 10000 * 2^(r/8), r = 0..7: the suboctave factors of line 301
SubOctave == <<10000, 10905, 11892, 12968, 14142, 15422, 16818, 18340>>

\* line 301: scales[j] = ndata/(self.scale*(2.0**(float(nscale-1-j)/notes))),
\* with m = nscale-1-j.  scales[j] < num/den, decided in integers: none of the
\* scales modelled is within 1e-4 of a bound it is compared with, except
\* where m is a multiple of notes and the comparison is exact.
ScaleBelow(ndata, m, num, den) ==
    ndata * den * 10000
        < num * maxscale * Pow2(m \div notes) * SubOctave[(m % notes) + 1]

\* lines 442-445: scales*1.5*resolution, in thousandths (rounded down)
Size1000(ndata, m, res) ==
    (ndata * 500 * res * 10000)
        \div (Pow2(m \div notes) * SubOctave[(m % notes) + 1])

\* line 439: index = np.nonzero(scales<ny/3), ny/3 being floor division;
\* the indices j (from 0) kept, ascending
Kept(ndata, nscale, ncol) ==
    SelectSeq([i \in 1..nscale |-> i - 1],
              LAMBDA j : ScaleBelow(ndata, nscale - 1 - j, ncol \div 3, 1))

\* lines 418-445 for a column of ny samples: pad, build the Morlet
\* transform's scales, truncate, rescale.  The density entry svarcwt[j] is
\* held as its index j before truncation.
SizeTable(ncol, res) ==
    LET ndata == Len(pad2nxtpow2([i \in 1..ncol |-> 0], ncol))
        s == _setscales(ndata, maxscale, notes, "log")
    IN  IF s.raised # "none"
        THEN [raised |-> s.raised, ndata |-> ndata, nscale |-> 0,
              sz |-> <<>>, pdf |-> <<>>]
        ELSE LET index == Kept(ndata, s.nscale, ncol)
             IN  [raised |-> "none", ndata |-> ndata, nscale |-> s.nscale,
                  sz |-> [i \in 1..Len(index) |->
                            Size1000(ndata, s.nscale - 1 - index[i], res)],
                  pdf |-> index]

AggInit ==
    /\ \E ncol \in 1..MaxNy, res \in 1..MaxRes :
         aggCall = [pc |-> "call", ny |-> ncol, resolution |-> res,
                    ndata |-> 0, nscale |-> 0, sz |-> <<>>, pdf |-> <<>>]
    /\ sgCall = Idle /\ cwtCall = Idle /\ padCall = Idle /\ statCall = Idle
    /\ PipeIdle

AggRun ==
    /\ aggCall.pc = "call"
    /\ LET t == SizeTable(aggCall.ny, aggCall.resolution)
       IN  aggCall' = IF t.raised # "none"
                      THEN [aggCall EXCEPT !.pc = "raised", !.ndata = t.ndata]
                      ELSE [aggCall EXCEPT !.pc = "done", !.ndata = t.ndata,
                                           !.nscale = t.nscale,
                                           !.sz = t.sz, !.pdf = t.pdf]
    /\ UNCHANGED <<sgCall, cwtCall, padCall, statCall, pipeVars>>

SpecAgg == AggInit /\ [][AggRun]_vars

\* C10: the table is strictly ascending in size, has as many densities as
\* sizes, and holds exactly the scales smaller than N/3, each with the
\* density entry of its own index; every scale >= N/3 is discarded.
C10_TableBelowThird ==
    aggCall.pc = "done" =>
        LET ncol == aggCall.ny
            ndata == aggCall.ndata
            n == aggCall.nscale
        IN  /\ Len(aggCall.sz) = Len(aggCall.pdf)
            /\ \A i \in 1..(Len(aggCall.sz) - 1) : aggCall.sz[i] < aggCall.sz[i + 1]
            /\ \A j \in 0..(n - 1) :
                 \* 3 * scales[j] < N
                 ScaleBelow(ndata, n - 1 - j, ncol, 3)
                    <=> \E i \in 1..Len(aggCall.pdf) :
                          /\ aggCall.pdf[i] = j
                          /\ aggCall.sz[i]
                               = Size1000(ndata, n - 1 - j, aggCall.resolution)

----------------------------------------------------------------------------
(* The batch run: main program (lines 672-736), processimage, the joblib
   pool that runs parallel_me, writeout *)

MaxFiles == 2

\* The images a folder may hold.  size is (width, height); constant says the
\* pixels are all equal; numFail says the numerical part of sgolay2d fails
\* on this image.
ImageKinds ==
    { [ok |-> FALSE, size |-> <<0, 0>>, constant |-> FALSE, numFail |-> FALSE],
      [ok |-> TRUE, size |-> <<2, 3>>, constant |-> FALSE, numFail |-> FALSE],
      [ok |-> TRUE, size |-> <<9, 6>>, constant |-> FALSE, numFail |-> FALSE],
      [ok |-> TRUE, size |-> <<9, 6>>, constant |-> TRUE, numFail |-> FALSE],
      [ok |-> TRUE, size |-> <<22, 25>>, constant |-> FALSE, numFail |-> FALSE],
      [ok |-> TRUE, size |-> <<22, 25>>, constant |-> FALSE, numFail |-> TRUE] }

Min(a, b) == IF a <= b THEN a ELSE b

\* lines 188-195
iseven(n) == n % 2 = 0
isodd(n) == ~iseven(n)

cropcentralFromMiddle(imsize) ==
    LET size == Min(imsize[1], imsize[2])
        originX == imsize[1] \div 2
        originY == imsize[2] \div 2
    IN  <<originX, originY, originX + size, originY + size>>

\* lines 217-225: the crop box (left, upper, right, lower)
cropcentral(imsize) ==
    LET size == Min(imsize[1], imsize[2])
        originX == (imsize[1] \div 2) - (size \div 2)
        originY == (imsize[2] \div 2) - (size \div 2)
    IN  <<originX, originY, originX + size, originY + size>>

\* range(start, stop, step) for step >= 1
rangeInclusive(start, stop, step) ==
    [i \in 1..(IF stop >= start THEN ((stop - start) \div step) + 1 ELSE 0)
        |-> start + (i - 1) * step]

range(start, stop, step) ==
    [i \in 1..(IF stop > start THEN ((stop - start - 1) \div step) + 1 ELSE 0)
        |-> start + (i - 1) * step]

VectorLengthUnpadded(ncol) ==
    _setscales(ncol, maxscale, notes, "log").nscale

\* lines 536-557: the column is padded, the transform is built on the padded
\* series, and dat holds one variance per scale
VectorLength(ncol) ==
    _setscales(Len(pad2nxtpow2([i \in 1..ncol |-> 0], ncol)),
               maxscale, notes, "log").nscale

\* what parallel_me returns for column k of useregion (lines 532-559): a
\* vector with one entry per scale; an entry is held as the column it was
\* computed from and its index in the vector
parallel_me(region, k, ncol) ==
    [j \in 1..VectorLength(ncol) |-> [region |-> region, col |-> k, j |-> j]]

\* the slot of a result not yet returned
NoVec == << [region |-> "none", col |-> 0, j |-> 0] >>

Init ==
    /\ sgCall = Idle /\ cwtCall = Idle /\ padCall = Idle
    /\ statCall = Idle /\ aggCall = Idle
    /\ \E n \in 1..MaxFiles : files \in [1..n -> ImageKinds]
    /\ density \in {7, 10}
    /\ numproc \in {1, 2, 8}
    /\ resolution \in {1, 2}
    /\ item = 1 /\ pc = "main"
    /\ nx = 0 /\ ny = 0 /\ useregion = "none" /\ flattenFailed = FALSE
    /\ jobs = <<>> /\ tasks = <<>> /\ results = <<>> /\ finished = <<>>
    /\ d = <<>> /\ ret = <<>> /\ outputs = <<>> /\ count = 0

\* lines 365-369, the image cannot be opened: print and sys.exit(2).  The
\* main program catches nothing, so the run ends there.
OpenFailsSkip ==
    /\ pc = "main" /\ ~files[item].ok
    /\ item' = item + 1
    /\ pc' = IF item = Len(files) THEN "finished" ELSE "main"
    /\ UNCHANGED <<callVars, cfgVars, imgVars, poolVars, d, ret, outputs, count>>

OpenFails ==
    /\ pc = "main" /\ ~files[item].ok
    /\ pc' = "exited"
    /\ UNCHANGED <<callVars, cfgVars, item, imgVars, poolVars, d, ret, outputs, count>>

\* lines 365-383: open, crop, shape of the region, mult.  For a constant
\* image np.std is 0, 1/0 is inf and int(inf) raises OverflowError.
OpenImage ==
    /\ pc = "main" /\ files[item].ok
    /\ LET box == cropcentral(files[item].size)
       IN  /\ nx' = box[4] - box[2]
           /\ ny' = box[3] - box[1]
    /\ pc' = IF files[item].constant THEN "crashed" ELSE "flatten"
    /\ UNCHANGED <<callVars, cfgVars, item, useregion, flattenFailed,
                   poolVars, d, ret, outputs, count>>

FlattenOutcomeNoFallback(r) ==
    IF r.returned
    THEN [useregion |-> "filtered", failed |-> FALSE, pc |-> "submit"]
    ELSE [useregion |-> "none", failed |-> TRUE, pc |-> "crashed"]

\* lines 390-397: the filtered and rescaled region, or on any exception
\* "flattening failed" and the region itself
FlattenOutcome(r) ==
    IF r.returned
    THEN [useregion |-> "filtered", failed |-> FALSE, pc |-> "submit"]
    ELSE [useregion |-> "raw", failed |-> TRUE, pc |-> "submit"]

WindowSizeQuarter(mn) == mn \div 4

\* lines 386-389: window_size for a cropped side mn (integer division)
WindowSize(mn) ==
    IF isodd(mn \div 4) THEN mn \div 4
    ELSE (mn \div 4) - 1

\* lines 381-397
Flatten ==
    /\ pc = "flatten"
    /\ LET window_size == WindowSize(Min(nx, ny))
           o == FlattenOutcome(sgolay2d(window_size, 3, files[item].numFail))
       IN  /\ useregion' = o.useregion
           /\ flattenFailed' = o.failed
           /\ pc' = o.pc
    /\ UNCHANGED <<callVars, cfgVars, item, nx, ny, poolVars, d, ret,
                   outputs, count>>

\* lines 414-416: one delayed parallel_me call per column of
\* range(1, nx-1, density), handed to Parallel in that order
Submit ==
    /\ pc = "submit"
    /\ jobs' = range(1, nx - 1, density)
    /\ tasks' = [i \in 1..Len(jobs') |-> "queued"]
    /\ results' = [i \in 1..Len(jobs') |-> NoVec]
    /\ finished' = <<>>
    /\ pc' = "parallel"
    /\ UNCHANGED <<callVars, cfgVars, item, imgVars, d, ret, outputs, count>>

Running == {i \in DOMAIN tasks : tasks[i] = "running"}

\* the pool takes the tasks in the order submitted, at most numproc at once
StartTask(i) ==
    /\ pc = "parallel"
    /\ tasks[i] = "queued"
    /\ \A j \in 1..(i - 1) : tasks[j] # "queued"
    /\ Cardinality(Running) < numproc
    /\ tasks' = [tasks EXCEPT ![i] = "running"]
    /\ UNCHANGED <<callVars, cfgVars, item, pc, imgVars, jobs, results,
                   finished, d, ret, outputs, count>>

\* a running parallel_me call returns its vector (line 559)
FinishTask(i) ==
    /\ pc = "parallel"
    /\ tasks[i] = "running"
    /\ tasks' = [tasks EXCEPT ![i] = "done"]
    /\ results' = [results EXCEPT ![i] = parallel_me(useregion, jobs[i], ny)]
    /\ finished' = Append(finished, i)
    /\ UNCHANGED <<callVars, cfgVars, item, pc, imgVars, jobs, d, ret,
                   outputs, count>>

\* a running parallel_me call raises
FailTask(i) ==
    /\ pc = "parallel"
    /\ tasks[i] = "running"
    /\ tasks' = [tasks EXCEPT ![i] = "failed"]
    /\ UNCHANGED <<callVars, cfgVars, item, pc, imgVars, jobs, results,
                   finished, d, ret, outputs, count>>

SomeTaskComplete ==
    tasks = <<>> \/ \E i \in DOMAIN tasks : tasks[i] = "done"

AllTasksSettled == \A i \in DOMAIN tasks : tasks[i] \in {"done", "failed"}

\* line 416: the call Parallel(...)(...) returns when every task has returned
AllTasksComplete == \A i \in DOMAIN tasks : tasks[i] = "done"

ResultListByCompletion == [i \in 1..Len(finished) |-> results[finished[i]]]

\* line 416: the list Parallel returns holds the results by task
ResultList == [i \in 1..Len(jobs) |-> results[i]]

ParallelReturn ==
    /\ pc = "parallel"
    /\ AllTasksComplete
    /\ d' = ResultList
    /\ pc' = "aggregate"
    /\ UNCHANGED <<callVars, cfgVars, item, imgVars, poolVars, ret, outputs, count>>

\* line 416: a task's exception is raised again by Parallel, in processimage
\* and in the main program, which catch nothing
ParallelRaise ==
    /\ pc = "parallel"
    /\ \E i \in DOMAIN tasks : tasks[i] = "failed"
    /\ pc' = "crashed"
    /\ UNCHANGED <<callVars, cfgVars, item, imgVars, poolVars, d, ret, outputs, count>>

\* line 431, np.reshape on a list: the vectors laid end to end
RECURSIVE ravel(_)
ravel(vecs) ==
    IF vecs = <<>> THEN <<>> ELSE Head(vecs) \o ravel(Tail(vecs))

\* line 431, np.reshape(d, (-1, nscale)): consecutive runs of nscale entries
\* of the flat list, one run per row; ValueError when the entries do not
\* fill whole rows
reshape(vecs, nscale) ==
    LET flat == ravel(vecs)
    IN  IF nscale = 0 \/ Len(flat) % nscale # 0
        THEN [raised |-> "ValueError", rows |-> <<>>]
        ELSE [raised |-> "none",
              rows |-> [r \in 1..(Len(flat) \div nscale) |->
                          [c \in 1..nscale |-> flat[(r - 1) * nscale + c]]]]

\* line 431, .T of a matrix with nscale columns
Transpose(rows, nscale) ==
    [c \in 1..nscale |-> [r \in 1..Len(rows) |-> rows[r][c]]]

\* lines 418-457 and 491: the scale set from column 1, Or1 reshaped from d by
\* the count of those scales, the truncated table; processimage returns and
\* its locals go.  degraded records that "flattening failed" was printed.
Aggregate ==
    /\ pc = "aggregate"
    /\ LET t == SizeTable(ny, resolution)
           m == reshape(d, t.nscale)
       IN  IF t.raised # "none" \/ m.raised # "none"
           THEN /\ pc' = "crashed"
                /\ UNCHANGED <<imgVars, poolVars, d, ret>>
           ELSE /\ ret' = [Or1 |-> Transpose(m.rows, t.nscale),
                            sz |-> t.sz, pdf |-> t.pdf,
                            degraded |-> flattenFailed]
                /\ pc' = "writeout"
                /\ nx' = 0 /\ ny' = 0 /\ useregion' = "none"
                /\ flattenFailed' = FALSE
                /\ jobs' = <<>> /\ tasks' = <<>> /\ results' = <<>>
                /\ finished' = <<>> /\ d' = <<>>
    /\ UNCHANGED <<callVars, cfgVars, item, outputs, count>>

\* lines 679-680 and 494-521: the _psd.txt table and the _summary.txt record
\* of this image, then the next file of the loop
Writeout ==
    /\ pc = "writeout"
    /\ outputs' = Append(outputs, [item |-> item, Or1 |-> ret.Or1,
                                   sz |-> ret.sz, pdf |-> ret.pdf,
                                   degraded |-> ret.degraded])
    /\ count' = count + 1
    /\ ret' = <<>>
    /\ item' = item + 1
    /\ pc' = IF item = Len(files) THEN "finished" ELSE "main"
    /\ UNCHANGED <<callVars, cfgVars, imgVars, poolVars, d>>

Next ==
    \/ OpenFails
    \/ OpenImage
    \/ Flatten
    \/ Submit
    \/ \E i \in DOMAIN tasks : StartTask(i)
    \/ \E i \in DOMAIN tasks : FinishTask(i)
    \/ \E i \in DOMAIN tasks : FailTask(i)
    \/ ParallelReturn
    \/ ParallelRaise
    \/ Aggregate
    \/ Writeout

Spec == Init /\ [][Next]_vars

----------------------------------------------------------------------------
(* Properties of the batch run *)

Written(j) == \E n \in DOMAIN outputs : outputs[n].item = j

\* C1: whatever the worker count and the order in which the column tasks
\* finish, the list Parallel returns holds the column vectors in ascending
\* column order, and so does every matrix that is aggregated and written.
C1_ResultsInColumnOrder ==
    /\ pc = "aggregate" =>
          /\ Len(d) = Len(jobs)
          /\ \A i \in DOMAIN d : d[i] = parallel_me(useregion, jobs[i], ny)
          /\ \A i \in DOMAIN jobs : \A j \in DOMAIN jobs :
                i < j => jobs[i] < jobs[j]
    /\ \A n \in DOMAIN outputs :
          \A c \in DOMAIN outputs[n].Or1 : \A i \in DOMAIN outputs[n].Or1[c] :
             /\ outputs[n].Or1[c][i].col = 1 + (i - 1) * density
             /\ outputs[n].Or1[c][i].region = outputs[n].Or1[1][1].region

\* several workers, the tasks finished out of order, and the list is back
C1_Witness ==
    /\ pc = "aggregate"
    /\ numproc > 1
    /\ Len(d) >= 3
    /\ finished[1] # 1 /\ finished[Len(finished)] # Len(finished)

\* C2: once a column task has failed, the image's analysis fails: nothing is
\* returned by the dispatcher, nothing is aggregated and nothing is written
\* for that image.
C2_TaskFailureFailsImage ==
    (\E i \in DOMAIN tasks : tasks[i] = "failed") =>
        /\ pc \in {"parallel", "crashed"}
        /\ d = <<>> /\ ret = <<>>
        /\ ~Written(item)

\* one task failed while others had completed, and the run has stopped
C2_Witness ==
    /\ pc = "crashed"
    /\ \E i \in DOMAIN tasks : tasks[i] = "failed"
    /\ \E i \in DOMAIN tasks : tasks[i] = "done"
    /\ ~Written(item)

\* C3 as stated: an image that cannot be opened is skipped, and every later
\* image of the run is analysed and written.
C3_SkipAndContinue ==
    pc \in {"exited", "finished"} =>
        \A i \in DOMAIN files : \A j \in DOMAIN files :
            (i < j /\ ~files[i].ok /\ files[j].ok /\ ~files[j].constant)
               => Written(j)

\* C3 as amended: an image that cannot be opened ends the run (exit status
\* 2): the loop never goes past it, so neither it nor any later file is
\* analysed or written; the outputs of the earlier files stay.
C3_OpenFailureEndsRun ==
    /\ \A j \in 1..(item - 1) : j \in DOMAIN files => files[j].ok
    /\ \A n \in DOMAIN outputs : \A j \in 1..outputs[n].item : files[j].ok
    /\ pc = "exited" =>
          /\ ~files[item].ok
          /\ \A j \in DOMAIN files : Written(j) <=> j < item
          /\ count = item - 1

\* the first file could not be opened, a good one follows and is not written
C3_Witness ==
    /\ pc = "exited"
    /\ item = 1 /\ Len(files) = 2
    /\ files[2].ok /\ ~files[2].constant
    /\ outputs = <<>>

C8_ReturnsAfterAllTasks ==
    /\ pc = "aggregate" =>
          /\ \A i \in DOMAIN tasks : tasks[i] = "done"
          /\ Len(d) = Len(tasks)
          /\ \A i \in DOMAIN d : d[i] # NoVec
    /\ \A n \in DOMAIN outputs :
          \A c \in DOMAIN outputs[n].Or1 : \A i \in DOMAIN outputs[n].Or1[c] :
             outputs[n].Or1[c][i] # NoVec[1]

\* one worker, three tasks: the later tasks had to wait, and all are done
\* when the list is back
C8_Witness ==
    /\ pc = "aggregate"
    /\ numproc = 1
    /\ Len(tasks) = 3
    /\ finished = <<1, 2, 3>>

----------------------------------------------------------------------------
(* processimage up to the submission of the column tasks (lines 365-416),
   for one image of any width and height and any sampling density *)

MaxSide == 32
MaxStride == 4

ImageInit ==
    /\ sgCall = Idle /\ cwtCall = Idle /\ padCall = Idle
    /\ statCall = Idle /\ aggCall = Idle
    /\ \E w \in 1..MaxSide, h \in 1..MaxSide, fail \in BOOLEAN :
         files = << [ok |-> TRUE, size |-> <<w, h>>, constant |-> FALSE,
                     numFail |-> fail] >>
    /\ density \in 1..MaxStride
    /\ numproc = 1
    /\ resolution = 1
    /\ item = 1 /\ pc = "main"
    /\ nx = 0 /\ ny = 0 /\ useregion = "none" /\ flattenFailed = FALSE
    /\ jobs = <<>> /\ tasks = <<>> /\ results = <<>> /\ finished = <<>>
    /\ d = <<>> /\ ret = <<>> /\ outputs = <<>> /\ count = 0

ImageNext ==
    \/ OpenImage
    \/ Flatten
    \/ Submit

SpecImage == ImageInit /\ [][ImageNext]_vars

\* C11: for every width and height >= 1 the crop box is a square of side
\* min(w, h) inside the image, and the region handed on is square.
C11_CropIsCentralSquare ==
    pc \in {"flatten", "submit", "parallel"} =>
        LET w == files[item].size[1]
            h == files[item].size[2]
            box == cropcentral(files[item].size)
            side == box[3] - box[1]
        IN  /\ box[4] - box[2] = side
            /\ side <= w /\ side <= h /\ (side = w \/ side = h)
            /\ 0 <= box[1] /\ box[3] <= w
            /\ 0 <= box[2] /\ box[4] <= h
            /\ nx = side /\ ny = side

\* a wide image with odd width and even height has been cropped
C11_Witness ==
    /\ pc = "flatten"
    /\ files[item].size = <<5, 2>>
    /\ nx = 2 /\ ny = 2

\* C12: the tasks submitted for an image of nx rows at density k are exactly
\* one per column index 1, 1+k, 1+2k, ... below nx-1, and each index is a
\* valid column index of the cropped image.
C12_OneTaskPerSampledColumn ==
    pc = "parallel" =>
        /\ {jobs[i] : i \in DOMAIN jobs}
             = {c \in 0..(nx + density) :
                    c >= 1 /\ c < nx - 1 /\ (c - 1) % density = 0}
        /\ \A i, j \in DOMAIN jobs : i < j => jobs[i] < jobs[j]
        /\ DOMAIN tasks = DOMAIN jobs
        /\ \A i \in DOMAIN jobs : 0 <= jobs[i] /\ jobs[i] < ny

\* three columns of a nine-row image are sampled at density 3
C12_Witness ==
    /\ pc = "parallel"
    /\ nx = 9 /\ density = 3
    /\ jobs = <<1, 4, 7>>
    /\ Len(tasks) = 3

\* C14: for every cropped side mn >= 20 the derived window size is odd,
\* smaller than mn and passes both parameter checks of sgolay2d for order 3,
\* so flattening falls back only when the numerical part fails.
C14_WindowPassesChecks ==
    (pc \in {"submit", "parallel"} /\ Min(nx, ny) >= 20) =>
        LET w == WindowSize(Min(nx, ny))
        IN  /\ isodd(w)
            /\ w < Min(nx, ny)
            /\ w * w >= n_terms(3)
            /\ Sgolay2dCheck(w, 3) = "none"
            /\ flattenFailed => files[item].numFail
            /\ ~flattenFailed => useregion = "filtered"

\* a 24-pixel side, whose quarter 6 is even, has been flattened with window 5
C14_Witness ==
    /\ pc = "submit"
    /\ Min(nx, ny) = 24
    /\ WindowSize(24) = 5
    /\ ~files[item].numFail
    /\ useregion = "filtered"

\* C13: within one image the scale count recomputed from column 1 equals the
\* length of every vector the column tasks returned, so the matrix reshaped
\* by that count has one row per sampled column, in order, holding exactly
\* that column's entries (Or1 is its transpose).
C13_ReshapeKeepsColumnsApart ==
    /\ pc = "aggregate" =>
          \A i \in DOMAIN d : Len(d[i]) = SizeTable(ny, resolution).nscale
    /\ pc = "writeout" =>
          LET side == Min(files[item].size[1], files[item].size[2])
              cols == range(1, side - 1, density)
              nscale == SizeTable(side, resolution).nscale
          IN  /\ Len(ret.Or1) = nscale
              /\ \A c \in 1..nscale :
                    /\ Len(ret.Or1[c]) = Len(cols)
                    /\ \A r \in 1..Len(cols) :
                          /\ ret.Or1[c][r].col = cols[r]
                          /\ ret.Or1[c][r].j = c

\* a 22-pixel image sampled at density 7: three vectors of 16 entries were
\* reshaped
C13_Witness ==
    /\ pc = "writeout"
    /\ density = 7
    /\ Len(ret.Or1) = 16
    /\ Len(ret.Or1[16]) = 3
    /\ ret.Or1[16][2].col = 8 /\ ret.Or1[16][2].j = 16

====
